---- MODULE Spec2Model ----
(***************************************************************************)
(* Generation job pipeline of ezstack: the synchronous generation routes,  *)
(* the job store helpers, the credit helpers and the Inngest background    *)
(* functions, as a state machine over the users, generation_jobs, courses, *)
(* lessons, content_variations and content_versions tables.                *)
(***************************************************************************)
EXTENDS Integers, Sequences, FiniteSets, TLC

(* ---------------------------------------------------------------------- *)
(* Bounds                                                                  *)
(* ---------------------------------------------------------------------- *)
\* largest balance a user row starts with
MaxCredits == 10
\* smallest balance a user row starts with
LowCredits == 2
\* number of generation/retry.requested events the environment sends
MaxRetryEvents == 1
\* number of batch requests
MaxBatches == 2
\* largest length of the variations array of a batch request
MaxVariations == 3
\* last millisecond the clock reaches
MaxClock == 2
\* largest number of items handed to batchGenerate
MaxItems == 6
\* number of runs of processContentVariation
MaxRuns == 2
\* number of calls of ensureUser
MaxCallers == 3
\* number of concurrent calls of invokeClaudeModel
MaxInvokers == 2
\* number of calls they make together
MaxInvocations == 3
\* number of prompts that are not in the warm cache
MaxNewKeys == 3
\* number of sentences of one kind in a text given to extractClaims
MaxSentences == 31

(* ---------------------------------------------------------------------- *)
(* Rows that exist before any request: two users, one course and one       *)
(* lesson each.                                                            *)
(* ---------------------------------------------------------------------- *)
Users == {"u1", "u2"}
Courses == {"c1", "c2"}
Lessons == {"l1", "l2"}
NoEntity == "none"

\* courses.user_id
CourseOwner(c) == IF c = "c1" THEN "u1" ELSE "u2"
\* lessons.course_id
LessonCourse(l) == IF l = "l1" THEN "c1" ELSE "c2"
LessonOwner(l) == CourseOwner(LessonCourse(l))

\* content that was in a column before any job ran
PreExisting == -1
\* NULL / '{}' column
Empty == 0

(* ---------------------------------------------------------------------- *)
(* Routes and their fixed costs                                            *)
(* ---------------------------------------------------------------------- *)
OUTLINE_GENERATION_CREDITS == 5
LESSON_PLAN_GENERATION_CREDITS == 3
VARIATION_CREDITS == 4
ENHANCEMENT_CREDITS == 3
OPTIMIZATION_CREDITS == 2
Depths == {"basic", "thorough", "comprehensive"}
FACT_CHECK_CREDITS(d) == CASE d = "basic" -> 1 [] d = "thorough" -> 2 [] OTHER -> 3

RouteKinds == {"outline", "lesson_plan", "content_variation", "enhance",
               "fact_check", "optimize", "variation_put"}

\* the routes that generate a content variation: the content-variation POST
\* and the PUT of the enhance route
VariationKinds == {"content_variation", "variation_put"}

\* the amount a route passes to requireCredits and deductCredits
Cost(kind, arg) ==
  CASE kind = "outline" -> OUTLINE_GENERATION_CREDITS
    [] kind = "lesson_plan" -> LESSON_PLAN_GENERATION_CREDITS
    [] kind \in VariationKinds -> VARIATION_CREDITS
    [] kind = "enhance" -> ENHANCEMENT_CREDITS
    [] kind = "optimize" -> OPTIMIZATION_CREDITS
    [] kind = "fact_check" -> FACT_CHECK_CREDITS(arg)
    [] OTHER -> 0

\* generation_jobs.type written by each route; a type is the sequence of
\* its words, which the type string joins with "_"
JobType(kind) ==
  CASE kind = "outline" -> <<"course", "outline">>
    [] kind = "lesson_plan" -> <<"lesson", "plan">>
    [] kind \in VariationKinds -> <<"content", "variation">>
    [] kind = "enhance" -> <<"content", "enhancement">>
    [] kind = "optimize" -> <<"optimization">>
    [] OTHER -> <<"fact", "check">>

\* generation_jobs.status in the row the route inserts
CreatedStatus(kind) ==
  IF kind \in {"fact_check", "optimize"} THEN "processing" ELSE "pending"

\* routes that send an Inngest event inside the try block after the debit
SendsEvent(kind, arg) ==
  \/ kind = "fact_check"
  \/ kind = "optimize" /\ arg = "contentId"

Terminal == {"completed", "failed"}

(* ---------------------------------------------------------------------- *)
(* Inngest event names: a namespace and words joined by separators, as in  *)
(* generation/course.outline.requested                                     *)
(* ---------------------------------------------------------------------- *)
EventName(ns, words, seps) == [ns |-> ns, words |-> words, seps |-> seps]

\* content.fact_checked and content.optimized
TrackingEvent(kind) ==
  IF kind = "fact_check" THEN EventName("content", <<"fact", "checked">>, <<"_">>)
  ELSE EventName("content", <<"optimized">>, <<>>)

\* notification/email.send
NotificationEvent == EventName("notification", <<"email", "send">>, <<".">>)

\* generation/retry.requested
RetryEvent == EventName("generation", <<"retry">>, <<>>)

\* generation/batch.requested
BatchRequested == EventName("generation", <<"batch">>, <<>>)

\* `generation/${type}.requested` for the type of a batch event, written
\* as one word with its own separators: content_variation
MemberRequested(type) == EventName("generation", type, <<"_">>)

\* String.prototype.replace('_', '.') on the separators of a type string:
\* only the first occurrence is replaced
ReplaceFirst(seps) == [i \in 1..Len(seps) |-> IF i = 1 THEN "." ELSE seps[i]]

\* `generation/${job.type.replace('_', '.')}.requested`
RetryTarget(type) ==
  EventName("generation", type,
            ReplaceFirst([i \in 1..(Len(type) - 1) |-> "_"]))

\* number of retries Inngest grants a step of the generation functions
Retries == 3

\* the functions handed to serve(), with the event each listens to
Trigger(f) ==
  CASE f = "retry" -> RetryEvent
    [] f = "batch" -> BatchRequested
    [] f = "bg_outline" -> EventName("generation", <<"course", "outline">>, <<".">>)
    [] OTHER -> EventName("generation", <<"lesson", "plan">>, <<".">>)

Registered == {"retry", "bg_outline", "bg_lesson_plan", "batch"}

\* the cost each background function subtracts in its deduct-credits step
BgCost(f) == IF f = "bg_outline" THEN 5 ELSE 3

(* ---------------------------------------------------------------------- *)
(* State                                                                   *)
(* ---------------------------------------------------------------------- *)
Procs == {"r1", "r2"}

VARIABLES
  credits,     \* users.credits_remaining
  credits0,    \* users.credits_remaining before the first request
  jobs,        \* generation_jobs, in insertion order
  courses,     \* courses.outline: Empty, PreExisting or the job that wrote it
  lessons,     \* lessons.lesson_plan and lessons.script, same encoding
  variations,  \* content_variations rows
  versions,    \* content_versions rows
  proc,        \* one record per request being served
  events,      \* every event sent to Inngest, in sending order
  taken,       \* indices of the events a function run has been started for
  fn,          \* the Inngest function run in progress
  now,         \* Date.now(), in milliseconds
  breq,        \* one record per batch request
  win,         \* the call of bedrockService.batchGenerate in progress
  accounts,    \* number of users rows per clerk_id of an owner not yet synced
  call,        \* the calls of ensureUser
  cache,       \* BedrockService.cache, in insertion order
  inv,         \* the calls of invokeClaudeModel
  fc           \* the call of FactChecker.extractClaims

vars == <<credits, credits0, jobs, courses, lessons, variations, versions,
          proc, events, taken, fn, now, breq, win, accounts, call, cache, inv, fc>>

\* the tables
db == <<credits, credits0, jobs, courses, lessons, variations, versions>>
\* the Inngest side
bg == <<events, taken, fn>>
\* the clock and the batch operations
aux == <<now, breq, win>>
\* the library functions checked on their own
lib == <<accounts, call, cache, inv, fc>>

IdleProc ==
  [kind |-> "none", pc |-> "idle", user |-> "u1", course |-> NoEntity,
   lesson |-> NoEntity, arg |-> "none", job |-> 0, snap |-> -1, rd |-> -1,
   newCredits |-> -1, err |-> "", resp |-> 0, calls |-> 0, writes |-> 0]

IdleFn ==
  [kind |-> "none", pc |-> "idle", job |-> 0, tries |-> 0, rd |-> -1,
   status |-> "none", type |-> <<>>, outcome |-> "none", calls |-> 0,
   batch |-> 0, jobIds |-> <<>>, results |-> <<>>, lesson |-> NoEntity,
   writes |-> 0, runs |-> 0]

Batches == 1..MaxBatches

IdleBatch ==
  [kind |-> "none", pc |-> "idle", user |-> "u1", course |-> NoEntity,
   nv |-> 0, n |-> 0, snap |-> -1, stamps |-> <<>>, made |-> 0, err |-> FALSE,
   jobIds |-> <<>>, rd |-> -1, debits |-> 0, amount |-> 0, resp |-> 0]

\* owners signed in at Clerk that have no users row yet
NewOwners == {"u3", "u4"}

Callers == 1..MaxCallers

IdleCall == [pc |-> "idle", owner |-> "u3", ret |-> "none", rereads |-> 0]

Invokers == 1..MaxInvokers

IdleInvoke == [pc |-> "idle", key |-> 0, n |-> 0]

IdleExtract == [pc |-> "idle", depth |-> "basic", content |-> <<>>, out |-> <<>>]

IdleWindow ==
  [pc |-> "idle", n |-> 0, concurrency |-> 0, i |-> 0, item |-> <<>>]

\* lesson l1 has a script, lesson l2 has none
InitRest ==
  /\ credits \in {[u \in Users |-> b] : b \in {LowCredits, MaxCredits}}
  /\ credits0 = credits
  /\ jobs = <<>>
  /\ courses = [c \in Courses |-> Empty]
  /\ lessons = [l \in Lessons |->
                 [plan |-> Empty,
                  script |-> IF l = "l1" THEN PreExisting ELSE Empty]]
  /\ variations = {}
  /\ versions = {}
  /\ proc = [p \in Procs |-> IdleProc]
  /\ events = <<>>
  /\ taken = {}
  /\ fn = IdleFn
  /\ now = 1
  /\ breq = [b \in Batches |-> IdleBatch]
  /\ win = IdleWindow
  /\ accounts = [o \in NewOwners |-> 0]
  /\ call = [c \in Callers |-> IdleCall]
  /\ inv = [i \in Invokers |-> IdleInvoke]
  /\ fc = IdleExtract

\* the Model Gateway cache of a new process is an empty Map
Init == InitRest /\ cache = <<>>

Max(a, b) == IF a >= b THEN a ELSE b

(* ---------------------------------------------------------------------- *)
(* Job store helpers (generationJobOperations)                             *)
(* ---------------------------------------------------------------------- *)
\* create: insert the row as given
NewJob(owner, kind, course, lesson) ==
  [owner |-> owner, type |-> JobType(kind), course |-> course,
   lesson |-> lesson, status |-> CreatedStatus(kind), result |-> FALSE,
   error_message |-> "", started_at |-> 0, completed_at |-> 0,
   hist |-> <<CreatedStatus(kind)>>, debits |-> 0, batchId |-> 0, batch |-> 0]

\* update(id, {status, ...}): unconditional write of the given columns
SetStatus(j, s) == [j EXCEPT !.status = s, !.hist = Append(@, s)]

startJob(j) == [SetStatus(j, "processing") EXCEPT !.started_at = @ + 1]

completeJob(j) ==
  [SetStatus(j, "completed") EXCEPT !.result = TRUE, !.completed_at = @ + 1]

failJob(j, msg) ==
  [SetStatus(j, "failed") EXCEPT !.error_message = msg, !.completed_at = @ + 1]

(* ---------------------------------------------------------------------- *)
(* Synchronous routes                                                      *)
(* ---------------------------------------------------------------------- *)
Goto(p, pc) == proc' = [proc EXCEPT ![p].pc = pc]

Respond(r, code) == [r EXCEPT !.pc = "done", !.resp = code]

\* the enhancementType values of the enhance route that are modelled
EnhancementTypes == {"humanize", "research"}

\* the request bodies the routes are called with; fact-check and optimize
\* get the text in the body (optimize with or without a contentId next to it)
RequestInputs ==
  [kind : {"outline"}, course : Courses, lesson : {NoEntity}, arg : {"none"}]
  \cup [kind : {"lesson_plan"}, course : Courses, lesson : Lessons, arg : {"none"}]
  \cup [kind : VariationKinds, course : {NoEntity}, lesson : Lessons,
        arg : {"youtube_script"}]
  \cup [kind : VariationKinds, course : {NoEntity}, lesson : {"l1"},
        arg : {"invalid"}]
  \cup [kind : {"enhance"}, course : {NoEntity}, lesson : Lessons \cup {NoEntity},
        arg : EnhancementTypes]
  \cup [kind : {"fact_check"}, course : {NoEntity}, lesson : {NoEntity},
        arg : Depths]
  \cup [kind : {"optimize"}, course : {NoEntity}, lesson : {NoEntity},
        arg : {"content", "contentId"}]

\* a request arrives
Request(p) ==
  /\ proc[p].pc = "idle"
  /\ \E u \in Users, in \in RequestInputs :
       proc' = [proc EXCEPT ![p] =
         [IdleProc EXCEPT !.kind = in.kind, !.pc = "admit", !.user = u,
                          !.course = in.course, !.lesson = in.lesson,
                          !.arg = in.arg]]
  /\ UNCHANGED <<lib, aux, db, bg>>

\* requireCredits without the comparison against the cost
requireCredits_Unchecked(balance, cost) == balance >= 0

\* requireCredits(cost): throws 'Insufficient credits' unless this holds
requireCredits(balance, cost) == balance >= cost

Admit(p) ==
  LET r == proc[p] IN
  /\ r.pc = "admit"
  /\ proc' = [proc EXCEPT ![p] =
       IF requireCredits(credits[r.user], Cost(r.kind, r.arg))
       THEN [r EXCEPT !.pc = "context", !.snap = credits[r.user]]
       ELSE [Respond(r, 402) EXCEPT !.snap = credits[r.user],
                                    !.err = "Insufficient credits"]]
  /\ UNCHANGED <<lib, aux, db, bg>>

\* a script check that lets every lesson pass
HasScript_Any(script) == TRUE

\* !lesson.script rejects a lesson whose script is null or ''
HasScript(script) == script # Empty

\* the ownership and precondition checks each route makes before the insert
ContextResponse(r, ls) ==
  CASE r.kind = "outline" ->
         IF CourseOwner(r.course) # r.user THEN 404 ELSE 0
    [] r.kind = "lesson_plan" ->
         IF CourseOwner(r.course) # r.user THEN 404
         ELSE IF LessonCourse(r.lesson) # r.course THEN 404 ELSE 0
    [] r.kind = "content_variation" ->
         IF LessonOwner(r.lesson) # r.user THEN 404
         ELSE IF ~HasScript(ls[r.lesson].script) THEN 400 ELSE 0
    [] r.kind = "variation_put" ->
         IF ~HasScript(ls[r.lesson].script) THEN 400 ELSE 0
    [] OTHER -> 0

Context(p) ==
  LET r == proc[p]
      code == ContextResponse(r, lessons) IN
  /\ r.pc = "context"
  /\ proc' = [proc EXCEPT ![p] =
       IF code # 0 THEN Respond(r, code) ELSE [r EXCEPT !.pc = "create"]]
  /\ UNCHANGED <<lib, aux, db, bg>>

CreateJob(p) ==
  LET r == proc[p]
      c == IF r.kind \in VariationKinds THEN LessonCourse(r.lesson)
           ELSE r.course IN
  /\ r.pc = "create"
  /\ jobs' = Append(jobs, NewJob(r.user, r.kind, c, r.lesson))
  /\ proc' = [proc EXCEPT ![p].job = Len(jobs) + 1,
                          ![p].pc = IF CreatedStatus(r.kind) = "pending"
                                    THEN "start" ELSE "generate"]
  /\ UNCHANGED <<lib, aux, credits, credits0, courses, lessons, variations, versions, bg>>

StartJob(p) ==
  LET r == proc[p] IN
  /\ r.pc = "start"
  /\ jobs' = [jobs EXCEPT ![r.job] = startJob(@)]
  /\ Goto(p, IF r.kind = "enhance" /\ r.arg = "research" THEN "research"
             ELSE "generate")
  /\ UNCHANGED <<lib, aux, credits, credits0, courses, lessons, variations, versions, bg>>

\* where the try block goes after the generation call
AfterGenerate(r) ==
  CASE r.kind \in {"outline", "lesson_plan"} \cup VariationKinds -> "write"
    [] r.kind = "enhance" /\ r.lesson # NoEntity -> "write"
    [] OTHER -> "complete"

Caught(r, msg) == [r EXCEPT !.pc = "failJob", !.err = msg]

\* perplexityService.researchTopic: its catch block logs and rethrows, so a
\* failed request to the Research Gateway reaches the route's catch
ResearchTopic(p) ==
  LET r == proc[p] IN
  /\ r.pc = "research"
  /\ \E ok \in BOOLEAN :
       proc' = [proc EXCEPT ![p] =
         IF ok THEN [r EXCEPT !.pc = "generate"]
         ELSE Caught(r, "Perplexity API error")]
  /\ UNCHANGED <<lib, aux, db, bg>>

\* perplexityService.enhanceContent catches its own failure and returns the
\* content it was given; every other generation call throws on failure
Swallows(r) == r.kind = "enhance" /\ r.arg = "research"

\* the default branch of the switch on variationType: the POST returns 400
\* from inside the try block, the PUT throws 'Invalid variation type'
DefaultBranch(r) ==
  IF r.kind = "content_variation" THEN Respond(r, 400)
  ELSE Caught(r, "Invalid variation type")

\* the Model Gateway / fact checker call; it returns or throws
Generate(p) ==
  LET r == proc[p] IN
  /\ r.pc = "generate"
  /\ \E ok \in BOOLEAN :
       proc' = [proc EXCEPT ![p] =
         IF r.kind \in VariationKinds /\ r.arg = "invalid"
         THEN DefaultBranch(r)
         ELSE IF ok \/ Swallows(r)
         THEN [r EXCEPT !.pc = AfterGenerate(r), !.calls = @ + 1]
         ELSE [Caught(r, "provider error") EXCEPT !.calls = @ + 1]]
  /\ UNCHANGED <<lib, aux, db, bg>>

\* the domain write of each route
WriteDomain(p) ==
  LET r == proc[p] IN
  /\ r.pc = "write"
  /\ \E ok \in BOOLEAN :
       IF ok
       THEN /\ courses' = IF r.kind = "outline"
                          THEN [courses EXCEPT ![r.course] = r.job] ELSE courses
            /\ lessons' =
                 CASE r.kind = "lesson_plan" ->
                        [lessons EXCEPT ![r.lesson].plan = r.job]
                   [] r.kind = "enhance" ->
                        [lessons EXCEPT ![r.lesson].script = r.job]
                   [] OTHER -> lessons
            /\ variations' = IF r.kind \in VariationKinds
                             THEN variations \cup {[lesson |-> r.lesson, job |-> r.job]}
                             ELSE variations
            /\ proc' = [proc EXCEPT ![p].writes = @ + 1,
                          ![p].pc = IF r.kind = "content_variation"
                                    THEN "version" ELSE "complete"]
       ELSE /\ proc' = [proc EXCEPT ![p] = Caught(r, "db error")]
            /\ UNCHANGED <<lib, aux, courses, lessons, variations>>
  /\ UNCHANGED <<lib, aux, credits, credits0, jobs, versions, bg>>

\* contentVersionOperations.create (version 1 of the new variation)
CreateVersion(p) ==
  LET r == proc[p] IN
  /\ r.pc = "version"
  /\ \E ok \in BOOLEAN :
       IF ok
       THEN /\ versions' = versions \cup {r.job}
            /\ Goto(p, "complete")
       ELSE /\ proc' = [proc EXCEPT ![p] = Caught(r, "db error")]
            /\ UNCHANGED versions
  /\ UNCHANGED <<lib, aux, credits, credits0, jobs, courses, lessons, variations, bg>>

CompleteJob(p) ==
  LET r == proc[p] IN
  /\ r.pc = "complete"
  /\ \E ok \in BOOLEAN :
       IF ok
       THEN /\ jobs' = [jobs EXCEPT ![r.job] = completeJob(@)]
            /\ Goto(p, "deductRead")
       ELSE /\ proc' = [proc EXCEPT ![p] = Caught(r, "db error")]
            /\ UNCHANGED jobs
  /\ UNCHANGED <<lib, aux, credits, credits0, courses, lessons, variations, versions, bg>>

\* the subtraction without Math.max
NewCredits_Unclamped(balance, amount) == balance - amount

\* Math.max(0, user.credits_remaining - credits)
NewCredits(balance, amount) == Max(0, balance - amount)

\* deductCredits, first half: getByClerkId and the computation of newCredits
DeductRead(p) ==
  LET r == proc[p] IN
  /\ r.pc = "deductRead"
  /\ \E ok \in BOOLEAN :
       proc' = [proc EXCEPT ![p] =
         IF ok
         THEN [r EXCEPT !.pc = "deductWrite", !.rd = credits[r.user],
                 !.newCredits = NewCredits(credits[r.user], Cost(r.kind, r.arg))]
         ELSE Caught(r, "db error")]
  /\ UNCHANGED <<lib, aux, db, bg>>

\* deductCredits, second half: updateCredits(user.id, newCredits)
DeductWrite(p) ==
  LET r == proc[p] IN
  /\ r.pc = "deductWrite"
  /\ credits' = [credits EXCEPT ![r.user] = r.newCredits]
  /\ jobs' = [jobs EXCEPT ![r.job].debits = @ + 1]
  /\ proc' = [proc EXCEPT ![p] =
       IF SendsEvent(r.kind, r.arg) THEN [r EXCEPT !.pc = "notify"]
       ELSE Respond(r, 200)]
  /\ UNCHANGED <<lib, aux, credits0, courses, lessons, variations, versions, bg>>

\* inngest.send of the tracking event, inside the try block
Notify(p) ==
  LET r == proc[p] IN
  /\ r.pc = "notify"
  /\ \E ok \in BOOLEAN :
       IF ok
       THEN /\ events' = Append(events, [name |-> TrackingEvent(r.kind), job |-> r.job])
            /\ proc' = [proc EXCEPT ![p] = Respond(r, 200)]
       ELSE /\ proc' = [proc EXCEPT ![p] = Caught(r, "event send failed")]
            /\ UNCHANGED events
  /\ UNCHANGED <<lib, aux, db, taken, fn>>

\* the catch block: failJob(job.id, error.message), then rethrow -> 500
FailJob(p) ==
  LET r == proc[p] IN
  /\ r.pc = "failJob"
  /\ jobs' = [jobs EXCEPT ![r.job] = failJob(@, r.err)]
  /\ proc' = [proc EXCEPT ![p] = Respond(r, 500)]
  /\ UNCHANGED <<lib, aux, credits, credits0, courses, lessons, variations, versions, bg>>

(* ---------------------------------------------------------------------- *)
(* Inngest: the retry event, and the registered functions                  *)
(* ---------------------------------------------------------------------- *)
RetryEventsSent ==
  Cardinality({i \in 1..Len(events) : events[i].name = RetryEvent})

\* a caller asks for a job to be retried
EnvRetry ==
  /\ RetryEventsSent < MaxRetryEvents
  /\ \E j \in 1..Len(jobs) :
       events' = Append(events, [name |-> RetryEvent, job |-> j])
  /\ UNCHANGED <<lib, aux, db, proc, taken, fn>>

\* first step of each function
FirstStep(f) ==
  CASE f = "retry" -> "get-job"
    [] f = "batch" -> "process-job"
    [] OTHER -> "start-job"

\* Inngest starts the function registered for an event
FnStart ==
  /\ fn.pc \in {"idle", "done"}
  /\ \E i \in (1..Len(events)) \ taken, f \in Registered :
       /\ events[i].name = Trigger(f)
       /\ taken' = taken \cup {i}
       /\ fn' = [IdleFn EXCEPT !.kind = f, !.pc = FirstStep(f),
                               !.job = events[i].job,
                               !.batch = IF f = "batch" THEN events[i].batch ELSE 0,
                               !.jobIds = IF f = "batch" THEN events[i].jobIds
                                          ELSE <<>>]
  /\ UNCHANGED <<lib, aux, db, proc, events>>

FnGoto(pc) == fn' = [fn EXCEPT !.pc = pc, !.tries = 0]
FnDone(outcome) == fn' = [fn EXCEPT !.pc = "done", !.outcome = outcome, !.tries = 0]

\* the status check without the comparison
IsFailed_Any(status) == TRUE

\* job.status !== 'failed' returns { error: 'Job is not in failed state' }
IsFailed(status) == status = "failed"

\* retryFailedGeneration: get-job, and the return when the job is not failed
RetryGetJob ==
  /\ fn.kind = "retry" /\ fn.pc = "get-job"
  /\ fn' = IF ~IsFailed(jobs[fn.job].status)
           THEN [fn EXCEPT !.pc = "done", !.outcome = "Job is not in failed state",
                           !.status = jobs[fn.job].status, !.type = jobs[fn.job].type]
           ELSE [fn EXCEPT !.pc = "reset-job", !.status = jobs[fn.job].status,
                           !.type = jobs[fn.job].type]
  /\ UNCHANGED <<lib, aux, db, proc, events, taken>>

\* update(jobId, {status: 'pending', error_message: null})
resetJob(j) == [SetStatus(j, "pending") EXCEPT !.error_message = ""]

RetryResetJob ==
  /\ fn.kind = "retry" /\ fn.pc = "reset-job"
  /\ jobs' = [jobs EXCEPT ![fn.job] = resetJob(@)]
  /\ FnGoto("trigger-generation")
  /\ UNCHANGED <<lib, aux, credits, credits0, courses, lessons, variations, versions,
                 proc, events, taken>>

RetryTrigger ==
  /\ fn.kind = "retry" /\ fn.pc = "trigger-generation"
  /\ events' = Append(events, [name |-> RetryTarget(fn.type), job |-> fn.job])
  /\ FnDone("success")
  /\ UNCHANGED <<lib, aux, db, proc, taken>>

BgKinds == {"bg_outline", "bg_lesson_plan"}

\* processCourseOutline / processLessonPlan: start-job
BgStartJob ==
  /\ fn.kind \in BgKinds /\ fn.pc = "start-job"
  /\ jobs' = [jobs EXCEPT ![fn.job] = startJob(@)]
  /\ FnGoto(IF fn.kind = "bg_outline" THEN "generate" ELSE "get-course")
  /\ UNCHANGED <<lib, aux, credits, credits0, courses, lessons, variations, versions,
                 proc, events, taken>>

\* processLessonPlan: get-course
BgGetCourse ==
  /\ fn.kind = "bg_lesson_plan" /\ fn.pc = "get-course"
  /\ FnGoto("generate")
  /\ UNCHANGED <<lib, aux, db, proc, events, taken>>

\* generate-outline / generate-plan
BgGenerate ==
  /\ fn.kind \in BgKinds /\ fn.pc = "generate"
  /\ fn' = [fn EXCEPT !.pc = "update", !.tries = 0, !.calls = @ + 1]
  /\ UNCHANGED <<lib, aux, db, proc, events, taken>>

\* update-course / update-lesson
BgUpdate ==
  /\ fn.kind \in BgKinds /\ fn.pc = "update"
  /\ courses' = IF fn.kind = "bg_outline"
                THEN [courses EXCEPT ![jobs[fn.job].course] = fn.job] ELSE courses
  /\ lessons' = IF fn.kind = "bg_lesson_plan"
                THEN [lessons EXCEPT ![jobs[fn.job].lesson].plan = fn.job]
                ELSE lessons
  /\ FnGoto("complete-job")
  /\ UNCHANGED <<lib, aux, credits, credits0, jobs, variations, versions, proc, events, taken>>

BgCompleteJob ==
  /\ fn.kind \in BgKinds /\ fn.pc = "complete-job"
  /\ jobs' = [jobs EXCEPT ![fn.job] = completeJob(@)]
  /\ FnGoto("deduct-credits")
  /\ UNCHANGED <<lib, aux, credits, credits0, courses, lessons, variations, versions,
                 proc, events, taken>>

\* deduct-credits, first await: userOperations.getById(userId)
BgDeductRead ==
  /\ fn.kind \in BgKinds /\ fn.pc = "deduct-credits"
  /\ fn' = [fn EXCEPT !.pc = "deduct-write", !.rd = credits[jobs[fn.job].owner]]
  /\ UNCHANGED <<lib, aux, db, proc, events, taken>>

\* Math.max(0, user.credits_remaining - 5)
BgNewCredits(balance, amount) == Max(0, balance - amount)

\* deduct-credits, second await: updateCredits(userId, Math.max(0, ...))
BgDeductWrite ==
  /\ fn.kind \in BgKinds /\ fn.pc = "deduct-write"
  /\ credits' = [credits EXCEPT ![jobs[fn.job].owner] =
                                  BgNewCredits(fn.rd, BgCost(fn.kind))]
  /\ jobs' = [jobs EXCEPT ![fn.job].debits = @ + 1]
  /\ IF fn.kind = "bg_outline" THEN FnGoto("send-notification")
     ELSE FnDone("success")
  /\ UNCHANGED <<lib, aux, credits0, courses, lessons, variations, versions, proc,
                 events, taken>>

\* processCourseOutline: step.sendEvent('send-notification', ...)
BgNotify ==
  /\ fn.kind = "bg_outline" /\ fn.pc = "send-notification"
  /\ events' = Append(events, [name |-> NotificationEvent, job |-> fn.job])
  /\ FnDone("success")
  /\ UNCHANGED <<lib, aux, db, proc, taken>>

\* a step throws: Inngest runs it again, up to Retries times, then the run fails
BgStepFails ==
  /\ fn.kind \in BgKinds \cup {"bg_variation"}
  /\ fn.pc \in {"start-job", "get-course", "generate", "update", "complete-job",
                "deduct-credits", "send-notification", "get-lesson",
                "save-variation", "create-version"}
  /\ LET f == IF fn.pc = "generate" THEN [fn EXCEPT !.calls = @ + 1] ELSE fn IN
     fn' = IF fn.tries < Retries THEN [f EXCEPT !.tries = @ + 1]
           ELSE [f EXCEPT !.pc = "done", !.outcome = "failed:" \o fn.pc]
  /\ UNCHANGED <<lib, aux, db, proc, events, taken>>

FnStep ==
  \/ FnStart \/ RetryGetJob \/ RetryResetJob \/ RetryTrigger
  \/ BgStartJob \/ BgGetCourse \/ BgGenerate \/ BgUpdate \/ BgCompleteJob
  \/ BgDeductRead \/ BgDeductWrite \/ BgNotify \/ BgStepFails

RouteStep(p) ==
  \/ Request(p) \/ Admit(p) \/ Context(p) \/ CreateJob(p) \/ StartJob(p)
  \/ ResearchTopic(p) \/ Generate(p) \/ WriteDomain(p) \/ CreateVersion(p) \/ CompleteJob(p)
  \/ DeductRead(p) \/ DeductWrite(p) \/ Notify(p) \/ FailJob(p)

Next == \E p \in Procs : RouteStep(p)

\* two requests served concurrently
Spec == Init /\ [][Next]_vars

\* one request, the retry event and the Inngest functions
NextBg == RouteStep("r1") \/ EnvRetry \/ FnStep

SpecBg == Init /\ [][NextBg]_vars


(* ---------------------------------------------------------------------- *)
(* Batch requests: content variations of a course (POST) and lesson plans  *)
(* of a course (PUT)                                                       *)
(* ---------------------------------------------------------------------- *)
BATCH_GENERATION_CREDITS_PER_ITEM == 3

\* credits a batch route asks for per member job
PerItem(kind) ==
  IF kind = "batch_variation" THEN BATCH_GENERATION_CREDITS_PER_ITEM
  ELSE LESSON_PLAN_GENERATION_CREDITS

\* generation_jobs.type of the member jobs
MemberType(kind) ==
  IF kind = "batch_variation" THEN <<"batch", "variation">> ELSE <<"lesson", "plan">>

\* course.lessons, in a fixed order
LessonList == <<"l1", "l2">>

\* the lessons of course c a batch works on: those with a script (POST),
\* those without a lesson plan (PUT)
Selected(kind, c) ==
  LET picked(l) ==
        /\ LessonCourse(l) = c
        /\ IF kind = "batch_variation" THEN lessons[l].script # Empty
           ELSE lessons[l].plan = Empty
  IN SelectSeq(LessonList, picked)

\* the lesson of the k-th member: one member per lesson and variation
MemberLesson(r, k) ==
  LET sel == Selected(r.kind, r.course) IN
  IF r.kind = "batch_variation" THEN sel[((k - 1) \div r.nv) + 1] ELSE sel[k]

BatchInputs ==
  [kind : {"batch_variation"}, course : Courses, nv : 1..MaxVariations]
  \cup [kind : {"batch_lesson_plan"}, course : Courses, nv : {1}]

BatchGoto(b, pc) == breq' = [breq EXCEPT ![b].pc = pc]

BatchRespond(r, code) == [r EXCEPT !.pc = "done", !.resp = code]

\* a batch request arrives; requests are served one after the other
BatchRequest(b) ==
  /\ breq[b].pc = "idle"
  /\ b > 1 => breq[b - 1].pc = "done"
  /\ \E u \in Users, in \in BatchInputs :
       breq' = [breq EXCEPT ![b] =
         [IdleBatch EXCEPT !.kind = in.kind, !.pc = "admit", !.user = u,
                           !.course = in.course, !.nv = in.nv]]
  /\ UNCHANGED <<lib, db, bg, proc, now, win>>

\* requireCredits(1)
BatchAdmit(b) ==
  LET r == breq[b] IN
  /\ r.pc = "admit"
  /\ breq' = [breq EXCEPT ![b] =
       IF requireCredits(credits[r.user], 1)
       THEN [r EXCEPT !.pc = "context", !.snap = credits[r.user]]
       ELSE BatchRespond(r, 402)]
  /\ UNCHANGED <<lib, db, bg, proc, now, win>>

\* getWithLessons, the ownership check, the selection of the lessons and the
\* comparison of the balance with the total
BatchContext(b) ==
  LET r == breq[b]
      sel == Selected(r.kind, r.course)
      n == IF r.kind = "batch_variation" THEN Len(sel) * r.nv ELSE Len(sel) IN
  /\ r.pc = "context"
  /\ breq' = [breq EXCEPT ![b] =
       IF CourseOwner(r.course) # r.user THEN BatchRespond(r, 404)
       ELSE IF Len(sel) = 0
         THEN BatchRespond(r, IF r.kind = "batch_variation" THEN 400 ELSE 200)
       ELSE IF r.snap < n * PerItem(r.kind) THEN BatchRespond(r, 402)
       ELSE [r EXCEPT !.n = n,
                      !.pc = IF r.kind = "batch_variation" THEN "build"
                             ELSE "create"]]
  /\ UNCHANGED <<lib, db, bg, proc, now, win>>

\* one turn of the loop that builds the rows of the POST: each row's
\* config.batchId is `batch_${Date.now()}`, read when the row is built
BatchBuild(b) ==
  LET r == breq[b] IN
  /\ r.pc = "build"
  /\ breq' = [breq EXCEPT ![b].stamps = Append(@, now),
                          ![b].pc = IF Len(r.stamps) + 1 = r.n THEN "create"
                                    ELSE "build"]
  /\ UNCHANGED <<lib, db, bg, proc, now, win>>

\* the row of the k-th member job; the PUT's rows carry no batchId
MemberJob(r, b, k) ==
  [owner |-> r.user, type |-> MemberType(r.kind), course |-> r.course,
   lesson |-> MemberLesson(r, k), status |-> "pending", result |-> FALSE,
   error_message |-> "", started_at |-> 0, completed_at |-> 0,
   hist |-> <<"pending">>, debits |-> 0,
   batchId |-> IF r.kind = "batch_variation" THEN r.stamps[k] ELSE 0,
   batch |-> b]

\* Promise.all over generationJobOperations.create: every insert is made,
\* and the route goes on only if none of them failed
BatchCreate(b) ==
  LET r == breq[b]
      k == r.made + 1
      last == k = r.n
      after(q) == IF ~last THEN q
                  ELSE IF q.err THEN BatchRespond(q, 500)
                  ELSE IF q.kind = "batch_variation" THEN [q EXCEPT !.pc = "send"]
                  ELSE BatchRespond(q, 200) IN
  /\ r.pc = "create"
  /\ \E ok \in BOOLEAN :
       IF ok
       THEN /\ jobs' = Append(jobs, MemberJob(r, b, k))
            /\ breq' = [breq EXCEPT ![b] =
                 after([r EXCEPT !.made = k,
                                 !.jobIds = Append(@, Len(jobs) + 1)])]
       ELSE /\ jobs' = jobs
            /\ breq' = [breq EXCEPT ![b] =
                 after([r EXCEPT !.made = k, !.err = TRUE])]
  /\ UNCHANGED <<lib, credits, credits0, courses, lessons, variations, versions,
                 bg, proc, now, win>>

\* inngest.send of generation/batch.requested with type 'content_variation'
BatchSend(b) ==
  LET r == breq[b] IN
  /\ r.pc = "send"
  /\ \E ok \in BOOLEAN :
       IF ok
       THEN /\ events' = Append(events,
                 [name |-> BatchRequested, job |-> 0, batch |-> b,
                  jobIds |-> r.jobIds, type |-> <<"content_variation">>])
            /\ BatchGoto(b, "deductRead")
       ELSE /\ events' = events
            /\ breq' = [breq EXCEPT ![b] = BatchRespond(r, 500)]
  /\ UNCHANGED <<lib, db, proc, taken, fn, now, win>>

\* deductCredits(user.clerk_id, totalCredits), first half
BatchDeductRead(b) ==
  LET r == breq[b] IN
  /\ r.pc = "deductRead"
  /\ \E ok \in BOOLEAN :
       breq' = [breq EXCEPT ![b] =
         IF ok THEN [r EXCEPT !.pc = "deductWrite", !.rd = credits[r.user]]
         ELSE BatchRespond(r, 500)]
  /\ UNCHANGED <<lib, db, bg, proc, now, win>>

\* deductCredits, second half, and the response
BatchDeductWrite(b) ==
  LET r == breq[b]
      newCredits == NewCredits(r.rd, r.n * PerItem(r.kind)) IN
  /\ r.pc = "deductWrite"
  /\ credits' = [credits EXCEPT ![r.user] = newCredits]
  /\ breq' = [breq EXCEPT ![b] =
       [BatchRespond(r, 200) EXCEPT !.debits = @ + 1,
                                    !.amount = @ + (credits[r.user] - newCredits)]]
  /\ UNCHANGED <<lib, credits0, jobs, courses, lessons, variations, versions,
                 bg, proc, now, win>>

BatchRouteStep(b) ==
  \/ BatchRequest(b) \/ BatchAdmit(b) \/ BatchContext(b) \/ BatchBuild(b)
  \/ BatchCreate(b) \/ BatchSend(b) \/ BatchDeductRead(b) \/ BatchDeductWrite(b)

\* a millisecond passes
Tick ==
  /\ now < MaxClock
  /\ now' = now + 1
  /\ UNCHANGED <<lib, db, bg, proc, breq, win>>

(* ---------------------------------------------------------------------- *)
(* processBatchGeneration                                                  *)
(* ---------------------------------------------------------------------- *)
\* number of results with the given status
Count(results, status) ==
  Cardinality({k \in 1..Len(results) : results[k] = status})

\* step process-job-<jobId>: getById and inngest.send inside a try whose
\* catch returns the result 'failed'
BatchProcessJob ==
  LET k == Len(fn.results) + 1
      e == events[CHOOSE i \in taken :
                    events[i].name = BatchRequested /\ events[i].batch = fn.batch] IN
  /\ fn.kind = "batch" /\ fn.pc = "process-job"
  /\ \E ok \in BOOLEAN :
       /\ events' = IF ok
                    THEN Append(events, [name |-> MemberRequested(e.type),
                                         job |-> fn.jobIds[k]])
                    ELSE events
       /\ fn' = [fn EXCEPT !.results = Append(@, IF ok THEN "queued" ELSE "failed"),
                           !.pc = IF k = Len(fn.jobIds) THEN "send-batch-complete"
                                  ELSE "process-job"]
  /\ UNCHANGED <<lib, aux, db, proc, taken>>

\* step send-batch-complete: the summary notification
BatchSendComplete ==
  /\ fn.kind = "batch" /\ fn.pc = "send-batch-complete"
  /\ events' = Append(events,
       [name |-> NotificationEvent, job |-> 0, batch |-> fn.batch,
        data |-> [totalJobs |-> Len(fn.jobIds),
                  successful |-> Count(fn.results, "queued"),
                  failed |-> Count(fn.results, "failed")]])
  /\ FnDone("success")
  /\ UNCHANGED <<lib, aux, db, proc, taken>>

NextBatch ==
  \/ \E b \in Batches : BatchRouteStep(b)
  \/ Tick \/ FnStart \/ BatchProcessJob \/ BatchSendComplete

\* batch requests, the clock and the Inngest functions
SpecBatch == Init /\ [][NextBatch]_vars

(* ---------------------------------------------------------------------- *)
(* bedrockService.batchGenerate(items, concurrency = 3)                    *)
(* ---------------------------------------------------------------------- *)
DefaultConcurrency == 3

\* the window sizes batchGenerate is called with
Concurrencies == {DefaultConcurrency, 5}

Min(a, b) == IF a <= b THEN a ELSE b

\* a slice that takes every item from i on
Slice_Rest(w) == (w.i + 1)..w.n

\* items.slice(i, i + concurrency), as the set of its positions
Slice(w) == (w.i + 1)..Min(w.i + w.concurrency, w.n)

Settled == {"fulfilled", "rejected"}

\* batchGenerate is called with n items
BatchGenerateCall ==
  /\ win.pc = "idle"
  /\ \E n \in 1..MaxItems, c \in Concurrencies :
       win' = [pc |-> "loop", n |-> n, concurrency |-> c, i |-> 0,
               item |-> [k \in 1..n |-> "notInvoked"]]
  /\ UNCHANGED <<lib, db, bg, proc, now, breq>>

\* i < items.length: batch.map(fn => fn()) invokes every item of the slice
\* before Promise.all awaits them
WindowStart ==
  /\ win.pc = "loop" /\ win.i < win.n
  /\ win' = [win EXCEPT !.pc = "await",
                        !.item = [k \in 1..win.n |->
                                    IF k \in Slice(win) THEN "running" ELSE @[k]]]
  /\ UNCHANGED <<lib, db, bg, proc, now, breq>>

\* an item that was invoked returns or throws, whatever batchGenerate does
Settle ==
  /\ \E k \in 1..win.n, outcome \in Settled :
       /\ win.item[k] = "running"
       /\ win' = [win EXCEPT !.item[k] = outcome]
  /\ UNCHANGED <<lib, db, bg, proc, now, breq>>

\* Promise.all resolves once every item of the slice has returned
AwaitResolved ==
  /\ win.pc = "await"
  /\ \A k \in Slice(win) : win.item[k] = "fulfilled"
  /\ win' = IF win.i + win.concurrency < win.n
            THEN [win EXCEPT !.pc = "delay"]
            ELSE [win EXCEPT !.pc = "loop", !.i = @ + win.concurrency]
  /\ UNCHANGED <<lib, db, bg, proc, now, breq>>

\* Promise.all rejects as soon as one item of the slice has thrown, and
\* batchGenerate throws with it
AwaitRejected ==
  /\ win.pc = "await"
  /\ \E k \in Slice(win) : win.item[k] = "rejected"
  /\ win' = [win EXCEPT !.pc = "thrown"]
  /\ UNCHANGED <<lib, db, bg, proc, now, breq>>

\* the second between two windows, then i += concurrency
WindowDelay ==
  /\ win.pc = "delay"
  /\ win' = [win EXCEPT !.pc = "loop", !.i = @ + win.concurrency]
  /\ UNCHANGED <<lib, db, bg, proc, now, breq>>

\* i >= items.length: return results
WindowReturn ==
  /\ win.pc = "loop" /\ win.i >= win.n
  /\ win' = [win EXCEPT !.pc = "returned"]
  /\ UNCHANGED <<lib, db, bg, proc, now, breq>>

NextWindow ==
  \/ BatchGenerateCall \/ WindowStart \/ Settle \/ AwaitResolved
  \/ AwaitRejected \/ WindowDelay \/ WindowReturn

\* one call of batchGenerate
SpecWindow == Init /\ [][NextWindow]_vars

(* ---------------------------------------------------------------------- *)
(* processContentVariation, run on the data of an event                    *)
(* generation/content_variation.requested                                  *)
(* ---------------------------------------------------------------------- *)
\* the function is run with an event whose data name a content-variation
\* job (jobId) and a lesson (lessonId)
VariationRun ==
  /\ fn.pc \in {"idle", "done"}
  /\ fn.runs < MaxRuns
  /\ \E j \in 1..Len(jobs), l \in Lessons :
       /\ jobs[j].type = JobType("content_variation")
       /\ fn' = [IdleFn EXCEPT !.kind = "bg_variation", !.pc = "start-job",
                            !.job = j, !.lesson = l, !.runs = fn.runs + 1]
  /\ UNCHANGED <<lib, aux, db, proc, events, taken>>

\* step start-job
CvStartJob ==
  /\ fn.kind = "bg_variation" /\ fn.pc = "start-job"
  /\ jobs' = [jobs EXCEPT ![fn.job] = startJob(@)]
  /\ fn' = [fn EXCEPT !.pc = "get-lesson", !.tries = 0, !.writes = @ + 1]
  /\ UNCHANGED <<lib, aux, credits, credits0, courses, lessons, variations, versions,
                 proc, events, taken>>

\* step get-lesson, then the throw when the lesson has no script
CvGetLesson ==
  /\ fn.kind = "bg_variation" /\ fn.pc = "get-lesson"
  /\ IF HasScript(lessons[fn.lesson].script) THEN FnGoto("generate")
     ELSE FnDone("failed:Lesson must have a script to generate variations")
  /\ UNCHANGED <<lib, aux, db, proc, events, taken>>

\* step generate-variation
CvGenerate ==
  /\ fn.kind = "bg_variation" /\ fn.pc = "generate"
  /\ fn' = [fn EXCEPT !.pc = "save-variation", !.tries = 0, !.calls = @ + 1]
  /\ UNCHANGED <<lib, aux, db, proc, events, taken>>

\* step save-variation
CvSaveVariation ==
  /\ fn.kind = "bg_variation" /\ fn.pc = "save-variation"
  /\ variations' = variations \cup {[lesson |-> fn.lesson, job |-> fn.job]}
  /\ FnGoto("create-version")
  /\ UNCHANGED <<lib, aux, credits, credits0, jobs, courses, lessons, versions,
                 proc, events, taken>>

\* step create-version
CvCreateVersion ==
  /\ fn.kind = "bg_variation" /\ fn.pc = "create-version"
  /\ versions' = versions \cup {fn.job}
  /\ FnGoto("complete-job")
  /\ UNCHANGED <<lib, aux, credits, credits0, jobs, courses, lessons, variations,
                 proc, events, taken>>

\* step complete-job
CvCompleteJob ==
  /\ fn.kind = "bg_variation" /\ fn.pc = "complete-job"
  /\ jobs' = [jobs EXCEPT ![fn.job] = completeJob(@)]
  /\ fn' = [fn EXCEPT !.pc = "done", !.outcome = "success", !.tries = 0,
                      !.writes = @ + 1]
  /\ UNCHANGED <<lib, aux, credits, credits0, courses, lessons, variations, versions,
                 proc, events, taken>>

NextVariation ==
  \/ RouteStep("r1") \/ VariationRun \/ CvStartJob \/ CvGetLesson \/ CvGenerate
  \/ CvSaveVariation \/ CvCreateVersion \/ CvCompleteJob \/ BgStepFails

\* one request and the runs of processContentVariation
SpecVariation == Init /\ [][NextVariation]_vars

(* ---------------------------------------------------------------------- *)
(* ensureUser                                                              *)
(* ---------------------------------------------------------------------- *)
\* an insert that no constraint rejects
UniqueViolation_None(rows) == FALSE

\* clerk_id TEXT UNIQUE NOT NULL: the insert fails when a row has the clerk_id
UniqueViolation(rows) == rows >= 1

\* .single(): an error unless exactly one row matches
Single(rows) == rows = 1

\* ensureUser is called for the signed-in owner
EnsureUser(c) ==
  /\ call[c].pc = "idle"
  /\ \E o \in NewOwners : call' = [call EXCEPT ![c] = [IdleCall EXCEPT !.pc = "get",
                                                                     !.owner = o]]
  /\ UNCHANGED <<db, bg, proc, aux, accounts, cache, inv, fc>>

\* userOperations.getByClerkId; its error sends the call to the create
GetByClerkId(c) ==
  LET r == call[c] IN
  /\ r.pc = "get"
  /\ call' = [call EXCEPT ![c] =
       IF Single(accounts[r.owner]) THEN [r EXCEPT !.pc = "done", !.ret = "user"]
       ELSE [r EXCEPT !.pc = "create"]]
  /\ UNCHANGED <<db, bg, proc, aux, accounts, cache, inv, fc>>

\* userOperations.create; its error sends the call to the second read
CreateUser(c) ==
  LET r == call[c] IN
  /\ r.pc = "create"
  /\ IF UniqueViolation(accounts[r.owner])
     THEN /\ call' = [call EXCEPT ![c].pc = "reread"]
          /\ accounts' = accounts
     ELSE /\ call' = [call EXCEPT ![c] = [r EXCEPT !.pc = "done", !.ret = "user"]]
          /\ accounts' = [accounts EXCEPT ![r.owner] = @ + 1]
  /\ UNCHANGED <<db, bg, proc, aux, cache, inv, fc>>

\* the second getByClerkId; its error reaches the outer catch, which
\* returns null
ReadAgain(c) ==
  LET r == call[c] IN
  /\ r.pc = "reread"
  /\ call' = [call EXCEPT ![c] =
       [r EXCEPT !.pc = "done", !.rereads = @ + 1,
                 !.ret = IF Single(accounts[r.owner]) THEN "user" ELSE "null"]]
  /\ UNCHANGED <<db, bg, proc, aux, accounts, cache, inv, fc>>

\* the Clerk webhook inserts the row of an owner that has none
WebhookCreate ==
  /\ \E o \in NewOwners :
       /\ ~UniqueViolation(accounts[o])
       /\ accounts' = [accounts EXCEPT ![o] = @ + 1]
  /\ UNCHANGED <<db, bg, proc, aux, call, cache, inv, fc>>

NextUser ==
  \/ \E c \in Callers :
       EnsureUser(c) \/ GetByClerkId(c) \/ CreateUser(c) \/ ReadAgain(c)
  \/ WebhookCreate

\* concurrent calls of ensureUser
SpecUser == Init /\ [][NextUser]_vars

(* ---------------------------------------------------------------------- *)
(* BedrockService.invokeClaudeModel and its cache                          *)
(* ---------------------------------------------------------------------- *)
CACHE_MAX == 50

\* a cache that has served CACHE_MAX - 2 different prompts, numbered in the
\* order of their insertion
WarmEntries == CACHE_MAX - 2
Warm == [k \in 1..WarmEntries |-> [key |-> k, fresh |-> TRUE]]

\* the cache keys of the calls: the oldest prompt of the warm cache and new ones
KeysUsed == {1} \cup ((WarmEntries + 1)..(WarmEntries + MaxNewKeys))

\* the calls made so far
RECURSIVE Invocations(_)
Invocations(S) ==
  IF S = {} THEN 0
  ELSE LET i == CHOOSE x \in S : TRUE IN inv[i].n + Invocations(S \ {i})

\* Map.has
Has(c, k) == \E x \in 1..Len(c) : c[x].key = k

\* cached && cached.expiresAt > now
Hit(c, k) == \E x \in 1..Len(c) : c[x].key = k /\ c[x].fresh

\* a size test that is late by one
CacheFull_Late(size) == size > CACHE_MAX

\* this.cache.size >= this.CACHE_MAX
CacheFull(size) == size >= CACHE_MAX

\* delete the first key of the Map when the cache is full
Evict(c) == IF CacheFull(Len(c)) /\ Len(c) > 0 THEN Tail(c) ELSE c

\* Map.set: a key the Map holds keeps its place, a new key goes last
Set(c, k) ==
  IF Has(c, k)
  THEN [x \in 1..Len(c) |-> IF c[x].key = k THEN [key |-> k, fresh |-> TRUE]
                            ELSE c[x]]
  ELSE Append(c, [key |-> k, fresh |-> TRUE])

\* a call: the key is looked up, a hit returns the cached text, a miss goes
\* on to bedrockClient.send
InvokeClaudeModel(i) ==
  /\ inv[i].pc = "idle" /\ Invocations(Invokers) < MaxInvocations
  /\ \E k \in KeysUsed :
       inv' = [inv EXCEPT ![i] =
         [pc |-> IF Hit(cache, k) THEN "idle" ELSE "send", key |-> k,
          n |-> inv[i].n + 1]]
  /\ UNCHANGED <<db, bg, proc, aux, accounts, call, cache, fc>>

\* bedrockClient.send returns and the text is cached, or it throws
SendReturns(i) ==
  /\ inv[i].pc = "send"
  /\ \E ok \in BOOLEAN :
       cache' = IF ok THEN Set(Evict(cache), inv[i].key) ELSE cache
  /\ inv' = [inv EXCEPT ![i].pc = "idle"]
  /\ UNCHANGED <<db, bg, proc, aux, accounts, call, fc>>

\* CACHE_TTL_MS pass without a call: every entry has expired
Expire ==
  /\ \E x \in 1..Len(cache) : cache[x].fresh
  /\ cache' = [x \in 1..Len(cache) |-> [cache[x] EXCEPT !.fresh = FALSE]]
  /\ UNCHANGED <<db, bg, proc, aux, accounts, call, inv, fc>>

\* the process has served WarmEntries prompts before
InitCache ==
  /\ InitRest
  /\ credits = [u \in Users |-> MaxCredits]
  /\ cache = Warm

NextCache ==
  \/ \E i \in Invokers : InvokeClaudeModel(i) \/ SendReturns(i)
  \/ Expire

\* concurrent calls of invokeClaudeModel on a warm cache
SpecCache == InitCache /\ [][NextCache]_vars

(* ---------------------------------------------------------------------- *)
(* FactChecker.extractClaims                                               *)
(* ---------------------------------------------------------------------- *)
\* the depths of FactCheckOptions and a string that is none of them
ExtractDepths == {"basic", "thorough", "comprehensive", "quick"}

\* a sentence is told by what extractClaims tests of it: it matches one of
\* factualPatterns ("indicator"), or matches none but looksLikeFactualClaim
\* ("definitive"), or neither ("other")
SentenceKinds == {"indicator", "definitive", "other"}

Block(kind, n) == [x \in 1..n |-> kind]

\* content.match(/[^.!?]+[.!?]+/g) || []: the texts, as their sentences
Contents ==
  {Block(k1, a) \o Block(k2, b) \o Block("other", c) :
     k1 \in {"indicator", "definitive"}, k2 \in {"indicator", "definitive"},
     a \in 0..MaxSentences, b \in 0..MaxSentences, c \in {0, 1}}

\* the test of the for loop: an indicator at every depth, a definitive
\* statement in comprehensive mode only
Pushed(kind, depth) ==
  \/ kind = "indicator"
  \/ depth = "comprehensive" /\ kind = "definitive"

\* the claims array after the loop: the pushed sentences (by their index in
\* the text), in the order of the text
RECURSIVE Collected(_, _, _)
Collected(sentences, depth, n) ==
  IF n = 0 THEN <<>>
  ELSE IF Pushed(sentences[n], depth)
       THEN Append(Collected(sentences, depth, n - 1), n)
       ELSE Collected(sentences, depth, n - 1)

\* one limit for every depth
Limit_Default(depth) == 15

\* limits[depth] || 15
Limit(depth) ==
  CASE depth = "basic" -> 5
    [] depth = "thorough" -> 15
    [] depth = "comprehensive" -> 30
    [] OTHER -> 15

\* Array.slice(0, n)
SliceTo(s, n) == SubSeq(s, 1, Min(n, Len(s)))

ExtractClaims(content, depth) ==
  SliceTo(Collected(content, depth, Len(content)), Limit(depth))

ExtractCall ==
  /\ fc.pc = "idle"
  /\ \E content \in Contents, depth \in ExtractDepths :
       fc' = [pc |-> "called", depth |-> depth, content |-> content,
              out |-> <<>>]
  /\ UNCHANGED <<db, bg, proc, aux, accounts, call, cache, inv>>

ExtractReturn ==
  /\ fc.pc = "called"
  /\ fc' = [fc EXCEPT !.pc = "returned",
                      !.out = ExtractClaims(fc.content, fc.depth)]
  /\ UNCHANGED <<db, bg, proc, aux, accounts, call, cache, inv>>

NextClaims == ExtractCall \/ ExtractReturn

\* extractClaims applied to texts of every length up to the bound
SpecClaims == Init /\ [][NextClaims]_vars

(* ---------------------------------------------------------------------- *)
(* Properties                                                              *)
(* ---------------------------------------------------------------------- *)
JobIds == 1..Len(jobs)

\* a request that was served to the end and had inserted a job
Finished(p) == proc[p].pc = "done" /\ proc[p].job # 0

\* C1: for every single-job flow that has ended, the owner was debited for
\* the job if and only if the job's status is completed: a failed job has
\* no debit, a completed job has exactly one.
C1_DebitIffCompleted ==
  \A p \in Procs :
    Finished(p) =>
      LET j == jobs[proc[p].job] IN
      /\ j.status = "failed" => j.debits = 0
      /\ j.status = "completed" => j.debits = 1

IsPrefix(s, t) == Len(s) <= Len(t) /\ \A i \in 1..Len(s) : s[i] = t[i]

\* C2: the statuses a job has had, in order, are a prefix of pending,
\* processing, then one of completed or failed.
C2_StatusSequence ==
  \A j \in JobIds :
    \E t \in Terminal : IsPrefix(jobs[j].hist, <<"pending", "processing", t>>)

\* a retry event for job j has been sent
RetryRequested(j) ==
  \E i \in 1..Len(events) : events[i].name = RetryEvent /\ events[i].job = j

\* C3: a flow whose generation step failed, on a route or in a background
\* function, leaves its job in status failed with a non-empty error message.
C3_GenerationFailureFailsJob ==
  /\ \A p \in Procs :
       (Finished(p) /\ proc[p].err = "provider error"
          /\ ~RetryRequested(proc[p].job)) =>
         /\ jobs[proc[p].job].status = "failed"
         /\ jobs[proc[p].job].error_message # ""
  /\ (fn.pc = "done" /\ fn.outcome = "failed:generate") =>
         /\ jobs[fn.job].status = "failed"
         /\ jobs[fn.job].error_message # ""

\* both requests are by user u, completed their job and debited it
BothDebited(u) ==
  \A p \in Procs :
    /\ proc[p].user = u
    /\ Finished(p)
    /\ jobs[proc[p].job].debits = 1

\* C4: when two jobs of one owner both complete and debit costs a and b from
\* a balance B >= a + b, the balance ends at B - a - b.
C4_NoLostUpdate ==
  \A u \in Users :
    LET a == Cost(proc["r1"].kind, proc["r1"].arg)
        b == Cost(proc["r2"].kind, proc["r2"].arg) IN
    (BothDebited(u) /\ credits0[u] >= a + b) => credits[u] = credits0[u] - a - b

\* the step of request p that writes the balance
DebitStep(p) == proc[p].pc = "deductWrite" /\ proc'[p].pc # "deductWrite"

\* C5: the balance is never negative, and a debit larger than the balance it
\* read sets the balance to zero and goes through (the job is debited and
\* the request goes on).
C5_BalanceClampedAtZero ==
  [][/\ \A u \in Users : credits'[u] >= 0
     /\ \A p \in Procs :
          (DebitStep(p) /\ proc[p].rd < Cost(proc[p].kind, proc[p].arg)) =>
            /\ credits'[proc[p].user] = 0
            /\ jobs'[proc[p].job].debits = jobs[proc[p].job].debits + 1
            /\ proc'[p].pc \in {"notify", "done"}
            /\ proc'[p].err = ""]_vars

\* a debit larger than the balance has been applied
C5_Witness ==
  \E p \in Procs :
    /\ proc[p].pc = "done" /\ proc[p].resp = 200
    /\ proc[p].rd >= 0
    /\ proc[p].rd < Cost(proc[p].kind, proc[p].arg)
    /\ credits[proc[p].user] = 0

\* the balance requireCredits saw was below the cost of the request
BelowCost(r) == r.snap >= 0 /\ r.snap < Cost(r.kind, r.arg)

C7_TerminalJobRejectsTransition ==
  [][\A p \in Procs :
       (/\ proc[p].pc \in {"complete", "failJob"}
        /\ proc'[p].pc # proc[p].pc
        /\ jobs[proc[p].job].status \in Terminal) =>
         /\ jobs'[proc[p].job] = jobs[proc[p].job]
         /\ proc'[p].err = "InvalidTransition"]_vars

\* the request names a course or lesson of another user
NamesForeignParent(r) ==
  \/ r.course # NoEntity /\ CourseOwner(r.course) # r.user
  \/ r.lesson # NoEntity /\ LessonOwner(r.lesson) # r.user

\* C8: content written by a job belongs to the owner of the job, and a
\* request that names a parent of another owner writes nothing.
C8_WritesOnlyOwnContent ==
  /\ \A c \in Courses : courses[c] > 0 => jobs[courses[c]].owner = CourseOwner(c)
  /\ \A l \in Lessons :
       /\ lessons[l].plan > 0 => jobs[lessons[l].plan].owner = LessonOwner(l)
       /\ lessons[l].script > 0 => jobs[lessons[l].script].owner = LessonOwner(l)
  /\ \A v \in variations : jobs[v.job].owner = LessonOwner(v.lesson)
  /\ \A p \in Procs :
       NamesForeignParent(proc[p]) => proc[p].writes = 0

\* job j is the writer of some domain content
WroteContent(j) ==
  \/ \E c \in Courses : courses[c] = j
  \/ \E l \in Lessons : lessons[l].plan = j \/ lessons[l].script = j
  \/ \E v \in variations : v.job = j

\* C9: a job in status failed has left no domain content behind.
C9_FailedJobLeavesNoContent ==
  \A j \in JobIds : jobs[j].status = "failed" => ~WroteContent(j)

\* C10: when sending the completion event fails, the job stays completed
\* with its result and the caller gets its successful response.
C10_NotifyFailureKeepsJob ==
  \A p \in Procs :
    proc[p].err = "event send failed" =>
      /\ jobs[proc[p].job].status = "completed"
      /\ jobs[proc[p].job].result
      /\ proc[p].pc = "done" => proc[p].resp = 200

\* C11: a research-enrich enhancement request whose Research Gateway call
\* failed still ends with its job completed.
C11_ResearchFailureKeepsJob ==
  \A p \in Procs :
    ( /\ proc[p].kind = "enhance" /\ proc[p].arg = "research"
      /\ proc[p].pc = "done"
      /\ proc[p].err = "Perplexity API error" )
    => jobs[proc[p].job].status = "completed"

\* C12: within one run of a job the Model Gateway is called at most once,
\* whether the run is a route's request or an Inngest function's run.
C12_GatewayCalledAtMostOnce ==
  /\ \A p \in Procs : proc[p].calls <= 1
  /\ fn.calls <= 1

\* the fields of a job the retry operation must leave alone
Config(j) == [owner |-> j.owner, type |-> j.type, course |-> j.course,
              lesson |-> j.lesson, batchId |-> j.batchId]

\* a step of a run of retryFailedGeneration
RetryOperationStep ==
  /\ fn.kind = "retry"
  /\ fn.pc \in {"get-job", "reset-job", "trigger-generation"}
  /\ fn'.pc # fn.pc

\* C13: the retry operation started on a failed job sets the job's status
\* to pending and leaves its config as it was; started on a job in any
\* other status it ends at once, changes no job and sends no event.
C13_RetryOnlyResetsFailed ==
  [][RetryOperationStep =>
       CASE fn.pc = "get-job" ->
              /\ jobs' = jobs /\ events' = events
              /\ IF jobs[fn.job].status = "failed"
                 THEN fn'.pc = "reset-job" ELSE fn'.pc = "done"
         [] fn.pc = "reset-job" ->
              /\ jobs'[fn.job].status = "pending"
              /\ Config(jobs'[fn.job]) = Config(jobs[fn.job])
              /\ jobs'[fn.job].result = jobs[fn.job].result
              /\ \A j \in 1..Len(jobs) : j # fn.job => jobs'[j] = jobs[j]
              /\ Len(jobs') = Len(jobs)
         [] OTHER -> jobs' = jobs]_vars

\* a retry run that found its job failed and has reset it
C13_Witness ==
  /\ fn.kind = "retry" /\ fn.pc = "done" /\ fn.outcome = "success"
  /\ fn.status = "failed"
  /\ jobs[fn.job].status = "pending"

\* the retry operation has reset job j from failed to pending
WasReset(j) ==
  \E i \in 1..(Len(jobs[j].hist) - 1) :
    jobs[j].hist[i] = "failed" /\ jobs[j].hist[i + 1] = "pending"

\* no function is running and no event that was sent starts one
WorkerQuiescent ==
  /\ fn.pc \in {"idle", "done"}
  /\ \A i \in (1..Len(events)) \ taken, f \in Registered :
       events[i].name # Trigger(f)

\* C14: a job that the retry operation has reset to pending is run again:
\* once the functions have nothing left to do, it is completed or failed.
C14_ResetJobRunsAgain ==
  \A j \in JobIds :
    (WasReset(j) /\ WorkerQuiescent) => jobs[j].status \in Terminal

\* batchGenerate is over and nothing it invoked is still running
WindowOver ==
  /\ win.pc \in {"returned", "thrown"}
  /\ \A k \in 1..win.n : win.item[k] # "running"

\* C15: when a batch of N members is over, every member was processed and
\* has succeeded or failed, whatever number K of them failed: the failure
\* of one member keeps no other member from being processed.
C15_FailureDoesNotStopOthers ==
  WindowOver => \A k \in 1..win.n : win.item[k] \in Settled

\* the window item k belongs to
WindowOf(w, k) == (k - 1) \div w.concurrency

Members(b) == {j \in JobIds : jobs[j].batch = b}

\* every batch request was answered, no function runs and no event that
\* was sent starts one
BatchesOver ==
  /\ \A b \in Batches : breq[b].pc = "done"
  /\ WorkerQuiescent

\* C16: every member job a batch request has created gets processed: once
\* the requests are answered and the functions have nothing left to do, it
\* is completed or failed.
C16_MembersReachTerminal ==
  BatchesOver =>
    \A b \in Batches : \A j \in Members(b) : jobs[j].status \in Terminal

\* C18: a batch request that was accepted has made exactly one debit, of
\* the sum of its members' fixed costs.
C18_OneDebitOfTheSum ==
  \A b \in Batches :
    (breq[b].pc = "done" /\ breq[b].resp = 200 /\ Members(b) # {}) =>
      /\ breq[b].debits = 1
      /\ breq[b].amount = Cardinality(Members(b)) * PerItem(breq[b].kind)

\* the batch-completion notifications sent for batch b
Notifications(b) ==
  {i \in 1..Len(events) :
     /\ events[i].name = NotificationEvent
     /\ events[i].batch = b}

\* C19: at most one batch-completion notification is sent for a batch, and
\* when it is sent every member job of the batch is completed or failed.
C19_NotificationAfterMembers ==
  \A b \in Batches :
    /\ Cardinality(Notifications(b)) <= 1
    /\ Notifications(b) # {} =>
         \A j \in Members(b) : jobs[j].status \in Terminal

\* GET ?batchId=: the user's jobs whose config.batchId is the given value
BatchStatus(u, batchId) ==
  {j \in JobIds : jobs[j].owner = u /\ jobs[j].batchId = batchId}

\* C20: filtering the jobs on the batchId of any member of a batch of
\* content variations returns exactly the members of that batch.
C20_BatchIdIdentifiesBatch ==
  \A b \in Batches : \A j \in Members(b) :
    jobs[j].type = MemberType("batch_variation") =>
      BatchStatus(jobs[j].owner, jobs[j].batchId) = Members(b)

\* the run of processContentVariation has thrown for the missing script
ScriptRejected ==
  /\ fn.kind = "bg_variation" /\ fn.pc = "done"
  /\ fn.outcome = "failed:Lesson must have a script to generate variations"

\* C21: a content-variation request that is rejected because the lesson has
\* no script has created no job (route) and has written nothing to the job
\* it was run for (background function), and that job is not failed.
C21_RejectedBeforeJobStarts ==
  /\ \A p \in Procs :
       ( /\ proc[p].kind \in VariationKinds /\ proc[p].pc = "done"
         /\ lessons[proc[p].lesson].script = Empty ) => proc[p].job = 0
  /\ ScriptRejected =>
       /\ fn.writes = 0
       /\ jobs[fn.job].status # "failed"

\* C22: a content-variation request for a lesson without a script is
\* rejected and has made no Model Gateway call, on the POST route, on the
\* PUT route and in the background function.
C22_NoScriptNoGatewayCall ==
  /\ \A p \in Procs :
       ( /\ proc[p].kind \in VariationKinds
         /\ proc[p].pc \notin {"idle", "admit", "context"}
         /\ lessons[proc[p].lesson].script = Empty )
       => proc[p].pc = "done" /\ proc[p].resp \in {400, 402, 404}
          /\ proc[p].calls = 0
  /\ (fn.kind = "bg_variation" /\ lessons[fn.lesson].script = Empty) =>
       /\ fn.calls = 0
       /\ fn.pc = "done" => fn.outcome # "success"

\* a run of the background function was rejected for the missing script
\* without a call
C22_Witness == ScriptRejected /\ fn.calls = 0

\* C23: however the calls of ensureUser for an owner interleave, at most one
\* account exists for the owner, and every call that has returned has
\* returned the one account that exists, also the call whose create failed.
C23_OneAccountEveryCallReturnsIt ==
  /\ \A o \in NewOwners : accounts[o] <= 1
  /\ \A c \in Callers :
       call[c].pc = "done" => call[c].ret = "user" /\ accounts[call[c].owner] = 1

\* a call lost the create race, read again and returned the account
C23_Witness ==
  \E c \in Callers :
    call[c].pc = "done" /\ call[c].rereads = 1 /\ call[c].ret = "user"


\* C24: the Model Gateway cache never holds more than CACHE_MAX entries, and
\* caching a new key in a full cache evicts the entry that was inserted
\* first: it cannot be retrieved any more and every other entry stays.
C24_CacheBoundedOldestEvicted ==
  [][/\ Len(cache') <= CACHE_MAX
     /\ \A i \in Invokers :
          (/\ inv[i].pc = "send" /\ inv'[i].pc = "idle"
           /\ cache' # cache
           /\ Len(cache) = CACHE_MAX /\ ~Has(cache, inv[i].key))
          => /\ ~Has(cache', cache[1].key)
             /\ cache' = Append(Tail(cache),
                                [key |-> inv[i].key, fresh |-> TRUE])]_vars

\* the cache is full and the prompt that was cached first has been evicted
C24_Witness ==
  /\ Len(cache) = CACHE_MAX
  /\ ~Has(cache, 1)
  /\ \A i \in Invokers : inv[i].pc = "idle"


\* C25: extractClaims returns at most 5 claims at depth basic, at most 15 at
\* depth thorough and at most 30 at depth comprehensive, whatever the length
\* of the text.
C25_ClaimsCapped ==
  fc.pc = "returned" =>
    /\ fc.depth = "basic" => Len(fc.out) <= 5
    /\ fc.depth = "thorough" => Len(fc.out) <= 15
    /\ fc.depth = "comprehensive" => Len(fc.out) <= 30

\* a text with more than 30 qualifying sentences, cut to 30 claims
C25_Witness ==
  /\ fc.pc = "returned" /\ fc.depth = "comprehensive"
  /\ Len(Collected(fc.content, fc.depth, Len(fc.content))) > 30
  /\ Len(fc.out) = 30


\* C26: for every job that has been in status processing, started_at was
\* written exactly once.
C26_StartedAtWrittenOnce ==
  \A j \in JobIds :
    (\E x \in 1..Len(jobs[j].hist) : jobs[j].hist[x] = "processing") =>
      jobs[j].started_at = 1

\* C27: completed_at is written exactly once for a job that is completed or
\* failed, and never for a job that has not reached one of the two.
C27_CompletedAtWrittenOnce ==
  \A j \in JobIds :
    /\ jobs[j].status \in Terminal => jobs[j].completed_at = 1
    /\ (\A x \in 1..Len(jobs[j].hist) : jobs[j].hist[x] \notin Terminal) =>
         jobs[j].completed_at = 0

\* C28: a job has a result if and only if its status is completed.
C28_ResultIffCompleted ==
  \A j \in JobIds : jobs[j].result <=> jobs[j].status = "completed"

\* C29: when the content-variation route has returned, the job it moved to
\* processing is completed or failed.
C29_ReturnedRouteLeavesTerminalJob ==
  \A p \in Procs :
    (/\ proc[p].kind = "content_variation"
     /\ Finished(p)
     /\ \E x \in 1..Len(jobs[proc[p].job].hist) :
          jobs[proc[p].job].hist[x] = "processing") =>
      jobs[proc[p].job].status \in Terminal

\* the fixed cost of the completed jobs of owner u
Spent(u) ==
  LET cost(p) ==
        IF proc[p].user = u /\ proc[p].job # 0
           /\ jobs[proc[p].job].status = "completed"
        THEN Cost(proc[p].kind, proc[p].arg) ELSE 0
  IN cost("r1") + cost("r2")

\* C30: when the requests have been served, the fixed cost of an owner's
\* completed jobs is at most the credits the owner held before them.
C30_CompletedCostWithinBalance ==
  \A u \in Users :
    (\A p \in Procs : proc[p].pc = "done") => Spent(u) <= credits0[u]

====
